---- MODULE Spec2Model ----
(***************************************************************************)
(* Model of the hospital demo's dual-write layer: mongo.py (connection,    *)
(* indexes, the mutation and query functions over the document store) and  *)
(* the app.py routes that write the relational store and mirror the write. *)
(***************************************************************************)
EXTENDS Integers, Sequences, FiniteSets, TLC

\* ------------------------------------------------------------------ bounds
MaxInserts == 2      \* documents ever inserted into the document store
MaxTime == 1         \* ticks of the wall clock

\* ------------------------------------------------------------ input values
None == "None"
\* Python's None where a document is expected (find_one, get_patient_by_id).
NoneDoc == [none |-> TRUE]
Usernames == {"doc1", "pat1"}
PasswordHashes == {"h1"}
RoleInputs == {"doctor", "patient"}
PatientIds == {1, 2}
Names == {"A", "B"}
Ages == {30, 31}
InsertAges == {30}      \* ages given on insert; an update may give any of Ages
Conditions == {"X"}
AddedBy == {"doc1"}
UriInputs == {None, "bad", "mongodb://host"}
\* The caller threads that may be inside insert_user at the same time, and
\* the record of a thread that is inside no call.
Threads == {1, 2}
Idle == [stage |-> "idle"]

\* ------------------------------------------------------------------- state
VARIABLES
    MONGO_URI,            \* mongo.py:14, read once from the environment
    pc,                   \* "import" before mongo.py's module body ran, then "ready"
    client, db, users_collection, patients_collection,   \* mongo.py:18-21, 230
    storeUp,              \* the document store answers requests
    usersUnique,          \* the store holds the unique index on users.username
    patientsUnique,       \* the store holds the unique index on patients.id
    users,                \* users collection, documents in natural order
    patients,             \* patients collection, documents in natural order
    nextOid,              \* next internal object identity (_id)
    now,                  \* wall clock
    appPc,                \* app.py: "import" before its module body ran, then
                          \* "serving", or "crashed" when the import raised
    app_users_collection, app_patients_collection,   \* app.py:24-25
    sql_users,            \* relational users table: rows username, password_hash, role
    sql_patients,         \* relational patients table: rows id, name, age, condition
    sql_seq,              \* the patients table's AUTOINCREMENT counter
    session,              \* the browser session: username and role, None when not set
    stroke_csv,           \* the rows of stroke_data.csv
    inflight              \* per caller thread: the insert_user call it is inside

mongoVars == <<MONGO_URI, pc, client, db, users_collection, patients_collection>>
storeVars == <<storeUp, usersUnique, patientsUnique, users, patients, nextOid>>
appVars == <<appPc, app_users_collection, app_patients_collection,
             sql_users, sql_patients, sql_seq, session, stroke_csv>>
vars == <<mongoVars, storeVars, now, appVars, inflight>>

handles == <<client, db, users_collection, patients_collection>>

\* ----------------------------------------------------- results of a call
\* The structured failure of mongo.py: {"success": False, "error": msg}.
Failure(msg) == [success |-> FALSE, error |-> msg]
\* Control leaves the function by an exception instead of a return value.
Raise(exc) == [raised |-> exc]
Raised(r) == "raised" \in DOMAIN r

\* str(e) of the exceptions the driver and the interpreter raise.
str_exc(exc) ==
    CASE exc = "ServerSelectionTimeoutError" -> "No servers found yet"
      [] exc = "DuplicateKeyError" -> "E11000 duplicate key error"
      [] exc = "AttributeError" -> "'NoneType' object has no attribute"
      [] exc = "TypeError" -> "'NoneType' object is not subscriptable"
      [] OTHER -> exc

\* The mutation functions' handler "except Exception as e": every exception
\* becomes the structured failure carrying str(e).
except_ConnectionOnly(exc) ==
    IF exc = "ServerSelectionTimeoutError" THEN Failure(str_exc(exc)) ELSE Raise(exc)
except_Exception(exc) == Failure(str_exc(exc))

\* ------------------------------------------------------ the driver's calls
\* Each returns [exc, coll, n]: the exception raised (None: none), the
\* collection afterwards and the call's count or assigned identity.
Matches(coll, key, v) == {i \in 1..Len(coll) : coll[i][key] = v}
FirstMatch(coll, key, v) ==
    CHOOSE i \in Matches(coll, key, v) : \A j \in Matches(coll, key, v) : i <= j
RemoveAt(coll, i) == [j \in 1..(Len(coll) - 1) |-> IF j < i THEN coll[j] ELSE coll[j + 1]]

\* Variant for comparison: the update replaces the document by the named fields (and its keys).
ReplaceFields(doc, upd) ==
    [f \in {"_id", "id"} \cup DOMAIN upd |-> IF f \in DOMAIN upd THEN upd[f] ELSE doc[f]]
\* $set: the named fields take the given values, the others keep theirs.
SetFields(doc, upd) ==
    [f \in DOMAIN doc |-> IF f \in DOMAIN upd THEN upd[f] ELSE doc[f]]

\* Variant for comparison: the store accepts a document whatever the unique index holds.
insert_one_unchecked(coll, key, unique, doc) ==
    IF ~storeUp THEN [exc |-> "ServerSelectionTimeoutError", coll |-> coll, n |-> 0]
    ELSE [exc |-> None, coll |-> Append(coll, doc), n |-> doc._id]
insert_one(coll, key, unique, doc) ==
    IF ~storeUp THEN [exc |-> "ServerSelectionTimeoutError", coll |-> coll, n |-> 0]
    ELSE IF unique /\ Matches(coll, key, doc[key]) # {}
    THEN [exc |-> "DuplicateKeyError", coll |-> coll, n |-> 0]
    ELSE [exc |-> None, coll |-> Append(coll, doc), n |-> doc._id]

\* Variant for comparison: the count reported is the matched count, not the modified count.
update_one_matched(coll, key, v, upd) ==
    IF ~storeUp THEN [exc |-> "ServerSelectionTimeoutError", coll |-> coll, n |-> 0]
    ELSE IF Matches(coll, key, v) = {} THEN [exc |-> None, coll |-> coll, n |-> 0]
    ELSE LET i == FirstMatch(coll, key, v)
         IN [exc |-> None, coll |-> [coll EXCEPT ![i] = SetFields(coll[i], upd)], n |-> 1]
update_one(coll, key, v, upd) ==
    IF ~storeUp THEN [exc |-> "ServerSelectionTimeoutError", coll |-> coll, n |-> 0]
    ELSE IF Matches(coll, key, v) = {} THEN [exc |-> None, coll |-> coll, n |-> 0]
    ELSE LET i == FirstMatch(coll, key, v)
             d == SetFields(coll[i], upd)
         IN [exc |-> None, coll |-> [coll EXCEPT ![i] = d],
             n |-> IF d = coll[i] THEN 0 ELSE 1]

\* update_one(..., upsert=True): as update_one, and when nothing matches, a
\* document of the filter's key and the named fields is inserted.
update_one_upsert(coll, key, v, upd) ==
    IF ~storeUp THEN [exc |-> "ServerSelectionTimeoutError", coll |-> coll, n |-> 0]
    ELSE IF Matches(coll, key, v) = {}
    THEN [exc |-> None,
          coll |-> Append(coll, [f \in {"_id", key} \cup DOMAIN upd |->
                                   IF f = "_id" THEN nextOid
                                   ELSE IF f = key THEN v ELSE upd[f]]),
          n |-> 0]
    ELSE update_one(coll, key, v, upd)

\* Variant for comparison: every matching document is deleted (delete_many).
RECURSIVE delete_many(_, _, _)
delete_many(coll, key, v) ==
    IF ~storeUp THEN [exc |-> "ServerSelectionTimeoutError", coll |-> coll, n |-> 0]
    ELSE IF Matches(coll, key, v) = {} THEN [exc |-> None, coll |-> coll, n |-> 0]
    ELSE LET rest == delete_many(RemoveAt(coll, FirstMatch(coll, key, v)), key, v)
         IN [exc |-> None, coll |-> rest.coll, n |-> rest.n + 1]
delete_one(coll, key, v) ==
    IF ~storeUp THEN [exc |-> "ServerSelectionTimeoutError", coll |-> coll, n |-> 0]
    ELSE IF Matches(coll, key, v) = {} THEN [exc |-> None, coll |-> coll, n |-> 0]
    ELSE [exc |-> None, coll |-> RemoveAt(coll, FirstMatch(coll, key, v)), n |-> 1]

find_one(coll, key, v) ==
    IF ~storeUp THEN [exc |-> "ServerSelectionTimeoutError", doc |-> NoneDoc]
    ELSE IF Matches(coll, key, v) = {} THEN [exc |-> None, doc |-> NoneDoc]
    ELSE [exc |-> None, doc |-> coll[FirstMatch(coll, key, v)]]

\* Variant for comparison: the projection is left out.
KeepId(doc) == doc
\* The projection {"_id": 0}: the document without its internal identity.
StripId(doc) == [f \in DOMAIN doc \ {"_id"} |-> doc[f]]

\* ---------------------------------------------------------------- startup
\* create_indexes: the unique indexes are declared users first, patients
\* second; an exception at any point is logged and swallowed.  outcome is
\* how far the declarations got.
IndexOutcomes == {"all", "users_only", "none"}
create_indexes(outcome) ==
    [usersUnique |-> outcome \in {"all", "users_only"},
     patientsUnique |-> outcome = "all"]

\* connect_to_mongodb: the globals it leaves and the tuple it returns.
\* The endpoint is checked first, then the client is built (the global
\* client is assigned at that point), then the ping runs, then the database
\* and collection globals are assigned and the indexes declared.
NoHandles == <<None, None, None, None>>
\* Variant for comparison: after a failed ping the client built before it is returned.
connect_keeps_client(outcome) ==
    IF MONGO_URI = None
    THEN [globals |-> handles, ret |-> NoHandles, indexes |-> create_indexes("none")]
    ELSE IF MONGO_URI = "bad"
    THEN [globals |-> handles, ret |-> NoHandles, indexes |-> create_indexes("none")]
    ELSE IF ~storeUp
    THEN [globals |-> <<"client", db, users_collection, patients_collection>>,
          ret |-> <<"client", None, None, None>>, indexes |-> create_indexes("none")]
    ELSE [globals |-> <<"client", "db", "users", "patients">>,
          ret |-> <<"client", "db", "users", "patients">>,
          indexes |-> create_indexes(outcome)]
\* Variant for comparison: an exception of create_indexes reaches connect_to_mongodb's
\* handler and the disconnected tuple is returned.
connect_aborts_without_indexes(outcome) ==
    IF MONGO_URI = None
    THEN [globals |-> handles, ret |-> NoHandles, indexes |-> create_indexes("none")]
    ELSE IF MONGO_URI = "bad"
    THEN [globals |-> handles, ret |-> NoHandles, indexes |-> create_indexes("none")]
    ELSE IF ~storeUp
    THEN [globals |-> <<"client", db, users_collection, patients_collection>>,
          ret |-> NoHandles, indexes |-> create_indexes("none")]
    ELSE [globals |-> <<"client", "db", "users", "patients">>,
          ret |-> IF outcome = "all" THEN <<"client", "db", "users", "patients">>
                  ELSE NoHandles,
          indexes |-> create_indexes(outcome)]
connect_to_mongodb(outcome) ==
    IF MONGO_URI = None
    THEN [globals |-> handles, ret |-> NoHandles, indexes |-> create_indexes("none")]
    ELSE IF MONGO_URI = "bad"
    THEN [globals |-> handles, ret |-> NoHandles, indexes |-> create_indexes("none")]
    ELSE IF ~storeUp
    THEN [globals |-> <<"client", db, users_collection, patients_collection>>,
          ret |-> NoHandles, indexes |-> create_indexes("none")]
    ELSE [globals |-> <<"client", "db", "users", "patients">>,
          ret |-> <<"client", "db", "users", "patients">>,
          indexes |-> create_indexes(outcome)]

\* mongo.py's module body (lines 18-21 and 230): connect_to_mongodb runs once
\* and the four globals take the tuple it returns.
module_init ==
    /\ pc = "import"
    /\ pc' = "ready"
    /\ \E outcome \in IndexOutcomes :
         LET c == connect_to_mongodb(outcome)
         IN /\ client' = c.ret[1]
            /\ db' = c.ret[2]
            /\ users_collection' = c.ret[3]
            /\ patients_collection' = c.ret[4]
            /\ usersUnique' = (usersUnique \/ c.indexes.usersUnique)
            /\ patientsUnique' = (patientsUnique \/ c.indexes.patientsUnique)
    /\ UNCHANGED <<MONGO_URI, storeUp, users, patients, nextOid, now, appVars, inflight>>

\* Variant for comparison: the client object alone decides, no ping is sent.
is_mongodb_connected_without_ping == client # None
\* is_mongodb_connected: a ping through the client, False on any exception
\* and when there is no client.
is_mongodb_connected ==
    IF client # None
    THEN IF storeUp THEN TRUE ELSE FALSE
    ELSE FALSE

\* --------------------------------------------- mongo.py: mutation functions
\* Each *_call is the function's body: the value it returns (or the exception
\* that leaves it) and the collection afterwards.
\* Variant for comparison: created_at is a fixed default instead of the clock's reading.
insert_user_epoch(username, password_hash, role) ==
    IF users_collection = None
    THEN [ret |-> Failure("MongoDB not connected"), coll |-> users]
    ELSE LET user_doc == [_id |-> nextOid, username |-> username,
                          password_hash |-> password_hash, role |-> role,
                          created_at |-> 0]
             result == insert_one(users, "username", usersUnique, user_doc)
         IN IF result.exc # None
            THEN [ret |-> except_Exception(result.exc), coll |-> result.coll]
            ELSE [ret |-> [success |-> TRUE, user_id |-> ToString(result.n)],
                  coll |-> result.coll]
\* Variant for comparison: a document of the same username is replaced by the new one.
insert_user_replacing(username, password_hash, role) ==
    IF users_collection = None
    THEN [ret |-> Failure("MongoDB not connected"), coll |-> users]
    ELSE LET user_doc == [_id |-> nextOid, username |-> username,
                          password_hash |-> password_hash, role |-> role,
                          created_at |-> now]
             result == IF storeUp /\ Matches(users, "username", username) # {}
                       THEN [exc |-> None,
                             coll |-> [users EXCEPT
                                         ![FirstMatch(users, "username", username)] = user_doc],
                             n |-> nextOid]
                       ELSE insert_one(users, "username", usersUnique, user_doc)
         IN IF result.exc # None
            THEN [ret |-> except_Exception(result.exc), coll |-> result.coll]
            ELSE [ret |-> [success |-> TRUE, user_id |-> ToString(result.n)],
                  coll |-> result.coll]
insert_user_call(username, password_hash, role) ==
    IF users_collection = None
    THEN [ret |-> Failure("MongoDB not connected"), coll |-> users]
    ELSE LET user_doc == [_id |-> nextOid, username |-> username,
                          password_hash |-> password_hash, role |-> role,
                          created_at |-> now]
             result == insert_one(users, "username", usersUnique, user_doc)
         IN IF result.exc # None
            THEN [ret |-> except_Exception(result.exc), coll |-> result.coll]
            ELSE [ret |-> [success |-> TRUE, user_id |-> ToString(result.n)],
                  coll |-> result.coll]

\* Variant for comparison: the acting user is not recorded in the document.
insert_patient_anonymous(patient_id, name, age, condition, added_by) ==
    IF patients_collection = None
    THEN [ret |-> Failure("MongoDB not connected"), coll |-> patients]
    ELSE LET patient_doc == [_id |-> nextOid, id |-> patient_id, name |-> name,
                             age |-> age, condition |-> condition,
                             created_at |-> now, added_by |-> None,
                             source |-> "web_form"]
             result == insert_one(patients, "id", patientsUnique, patient_doc)
         IN IF result.exc # None
            THEN [ret |-> except_Exception(result.exc), coll |-> result.coll]
            ELSE [ret |-> [success |-> TRUE, patient_id |-> ToString(result.n)],
                  coll |-> result.coll]
insert_patient_call(patient_id, name, age, condition, added_by) ==
    IF patients_collection = None
    THEN [ret |-> Failure("MongoDB not connected"), coll |-> patients]
    ELSE LET patient_doc == [_id |-> nextOid, id |-> patient_id, name |-> name,
                             age |-> age, condition |-> condition,
                             created_at |-> now, added_by |-> added_by,
                             source |-> "web_form"]
             result == insert_one(patients, "id", patientsUnique, patient_doc)
         IN IF result.exc # None
            THEN [ret |-> except_Exception(result.exc), coll |-> result.coll]
            ELSE [ret |-> [success |-> TRUE, patient_id |-> ToString(result.n)],
                  coll |-> result.coll]

\* Variant for comparison: the update is sent as an upsert.
update_patient_upserting(patient_id, update_data) ==
    IF patients_collection = None
    THEN [ret |-> Failure("MongoDB not connected"), coll |-> patients]
    ELSE LET result == update_one_upsert(patients, "id", patient_id, update_data)
         IN IF result.exc # None
            THEN [ret |-> except_Exception(result.exc), coll |-> result.coll]
            ELSE IF result.n > 0
            THEN [ret |-> [success |-> TRUE, modified_count |-> result.n],
                  coll |-> result.coll]
            ELSE [ret |-> Failure("Patient not found"), coll |-> result.coll]
update_patient_call(patient_id, update_data) ==
    IF patients_collection = None
    THEN [ret |-> Failure("MongoDB not connected"), coll |-> patients]
    ELSE LET result == update_one(patients, "id", patient_id, update_data)
         IN IF result.exc # None
            THEN [ret |-> except_Exception(result.exc), coll |-> result.coll]
            ELSE IF result.n > 0
            THEN [ret |-> [success |-> TRUE, modified_count |-> result.n],
                  coll |-> result.coll]
            ELSE [ret |-> Failure("Patient not found"), coll |-> result.coll]

\* Variant for comparison: no check of the collection handle; the call on None raises
\* AttributeError inside the try block.
delete_patient_unguarded(patient_id) ==
    IF patients_collection = None
    THEN [ret |-> except_Exception("AttributeError"), coll |-> patients]
    ELSE LET result == delete_one(patients, "id", patient_id)
         IN IF result.exc # None
            THEN [ret |-> except_Exception(result.exc), coll |-> result.coll]
            ELSE IF result.n > 0
            THEN [ret |-> [success |-> TRUE, deleted_count |-> result.n],
                  coll |-> result.coll]
            ELSE [ret |-> Failure("Patient not found"), coll |-> result.coll]
\* Variant for comparison: a delete that removed nothing is reported as a success.
delete_patient_lenient(patient_id) ==
    IF patients_collection = None
    THEN [ret |-> Failure("MongoDB not connected"), coll |-> patients]
    ELSE LET result == delete_one(patients, "id", patient_id)
         IN IF result.exc # None
            THEN [ret |-> except_Exception(result.exc), coll |-> result.coll]
            ELSE [ret |-> [success |-> TRUE, deleted_count |-> result.n],
                  coll |-> result.coll]
delete_patient_call(patient_id) ==
    IF patients_collection = None
    THEN [ret |-> Failure("MongoDB not connected"), coll |-> patients]
    ELSE LET result == delete_one(patients, "id", patient_id)
         IN IF result.exc # None
            THEN [ret |-> except_Exception(result.exc), coll |-> result.coll]
            ELSE IF result.n > 0
            THEN [ret |-> [success |-> TRUE, deleted_count |-> result.n],
                  coll |-> result.coll]
            ELSE [ret |-> Failure("Patient not found"), coll |-> result.coll]

\* The partial updates a caller passes: one field, or the three the
\* web form edits.
UpdateInputs ==
    {[name |-> n] : n \in Names} \cup {[age |-> a] : a \in Ages}
    \cup {[name |-> n, age |-> a, condition |-> c] :
             n \in Names, a \in Ages, c \in Conditions}

insert_user(username, password_hash, role) ==
    /\ pc = "ready"
    /\ nextOid <= MaxInserts
    /\ LET c == insert_user_call(username, password_hash, role)
       IN /\ users' = c.coll
          /\ nextOid' = IF Len(c.coll) > Len(users) THEN nextOid + 1 ELSE nextOid
    /\ UNCHANGED <<mongoVars, storeUp, usersUnique, patientsUnique, patients, now, appVars, inflight>>

\* insert_user as two threads run it side by side: a thread enters the call
\* (the handle check and the document with the clock's reading, lines
\* 99-108), later its insert_one reaches the store (line 110) and the result
\* or the caught exception becomes the returned value (lines 112-115), and
\* the caller takes the value.  The store handles one insert_one at a time.
insert_user_enter(t, username, password_hash, role) ==
    /\ pc = "ready"
    /\ inflight[t] = Idle
    /\ inflight' = [inflight EXCEPT ![t] =
         IF users_collection = None
         THEN [stage |-> "returned", username |-> username,
               ret |-> Failure("MongoDB not connected")]
         ELSE [stage |-> "built",
               user_doc |-> [username |-> username, password_hash |-> password_hash,
                             role |-> role, created_at |-> now]]]
    /\ UNCHANGED <<mongoVars, storeVars, now, appVars>>

\* What thread t's insert_one gives when it reaches the store now.
insert_user_finish(t) ==
    LET d == inflight[t].user_doc
        user_doc == [_id |-> nextOid, username |-> d.username,
                     password_hash |-> d.password_hash, role |-> d.role,
                     created_at |-> d.created_at]
        result == insert_one(users, "username", usersUnique, user_doc)
    IN IF result.exc # None
       THEN [ret |-> except_Exception(result.exc), coll |-> result.coll]
       ELSE [ret |-> [success |-> TRUE, user_id |-> ToString(result.n)],
             coll |-> result.coll]

insert_user_store(t) ==
    /\ pc = "ready"
    /\ inflight[t].stage = "built"
    /\ nextOid <= MaxInserts
    /\ LET c == insert_user_finish(t)
       IN /\ users' = c.coll
          /\ nextOid' = IF Len(c.coll) > Len(users) THEN nextOid + 1 ELSE nextOid
          /\ inflight' = [inflight EXCEPT ![t] =
                           [stage |-> "returned",
                            username |-> inflight[t].user_doc.username,
                            ret |-> c.ret]]
    /\ UNCHANGED <<mongoVars, storeUp, usersUnique, patientsUnique, patients, now, appVars>>

insert_user_return(t) ==
    /\ inflight[t].stage = "returned"
    /\ inflight' = [inflight EXCEPT ![t] = Idle]
    /\ UNCHANGED <<mongoVars, storeVars, now, appVars>>

insert_patient(patient_id, name, age, condition, added_by) ==
    /\ pc = "ready"
    /\ nextOid <= MaxInserts
    /\ LET c == insert_patient_call(patient_id, name, age, condition, added_by)
       IN /\ patients' = c.coll
          /\ nextOid' = IF Len(c.coll) > Len(patients) THEN nextOid + 1 ELSE nextOid
    /\ UNCHANGED <<mongoVars, storeUp, usersUnique, patientsUnique, users, now, appVars, inflight>>

update_patient(patient_id, update_data) ==
    /\ pc = "ready"
    /\ LET c == update_patient_call(patient_id, update_data)
       IN /\ patients' = c.coll
    /\ UNCHANGED <<mongoVars, storeUp, usersUnique, patientsUnique, users, nextOid, now, appVars, inflight>>

delete_patient(patient_id) ==
    /\ pc = "ready"
    /\ LET c == delete_patient_call(patient_id)
       IN /\ patients' = c.coll
    /\ UNCHANGED <<mongoVars, storeUp, usersUnique, patientsUnique, users, nextOid, now, appVars, inflight>>

\* ------------------------------------------------ mongo.py: query functions
\* find over a collection: every document, or the driver's exception.
find(coll) ==
    IF ~storeUp THEN [exc |-> "ServerSelectionTimeoutError", docs |-> <<>>]
    ELSE [exc |-> None, docs |-> [i \in 1..Len(coll) |-> StripId(coll[i])]]

\* sort("created_at", -1): newest first; documents of equal time keep their
\* natural order.
RECURSIVE SortDesc(_)
SortDesc(docs) ==
    IF docs = <<>> THEN <<>>
    ELSE LET top == CHOOSE i \in 1..Len(docs) :
                      /\ \A j \in 1..Len(docs) : docs[j].created_at <= docs[i].created_at
                      /\ \A j \in 1..(i - 1) : docs[j].created_at < docs[i].created_at
         IN <<docs[top]>> \o SortDesc(RemoveAt(docs, top))

get_all_users ==
    IF users_collection = None THEN <<>>
    ELSE LET r == find(users)
         IN IF r.exc # None THEN <<>> ELSE r.docs

get_all_patients ==
    IF patients_collection = None THEN <<>>
    ELSE LET r == find(patients)
         IN IF r.exc # None THEN <<>> ELSE SortDesc(r.docs)

get_patient_by_id(patient_id) ==
    IF patients_collection = None THEN NoneDoc
    ELSE LET r == find_one(patients, "id", patient_id)
         IN IF r.exc # None THEN NoneDoc
            ELSE IF r.doc = NoneDoc THEN NoneDoc ELSE StripId(r.doc)

count_documents(coll) ==
    IF ~storeUp THEN [exc |-> "ServerSelectionTimeoutError", n |-> 0]
    ELSE [exc |-> None, n |-> Len(coll)]

get_patient_count ==
    IF patients_collection = None THEN 0
    ELSE LET r == count_documents(patients)
         IN IF r.exc # None THEN 0 ELSE r.n

get_user_count ==
    IF users_collection = None THEN 0
    ELSE LET r == count_documents(users)
         IN IF r.exc # None THEN 0 ELSE r.n

\* ------------------------------------------------------------------ app.py
\* The form values a browser posts.
RegisterForms ==
    [username : {" ", "doc1"}, password : {"", "pw1"},
     confirm_password : {"pw1", "pw2"}, role : {"", "doctor", "patient"}]
\* The registration forms of two people, for the runs about the session.
\* The role is whatever the request carries: the page offers a list, the
\* handler takes any text.
AuthRegisterForms ==
    [username : {" ", "doc1", "pat1"}, password : {"", "pw1"},
     confirm_password : {"pw1", "pw2"}, role : {"", "doctor", "patient", "nurse"}]
LoginForms == [username : {"", "doc1", "pat1"}, password : {"", "pw1", "pw2"}]
PatientForms == [name : {" ", "A"}, age : {"abc", "0", "30"}, condition : {"X"}]
UpdateForms == [id : {"x", "1", "2"}, name : {"B"}, age : {"0", "31"}, condition : {"X"}]
DeleteForms == [id : {"", "1", "2"}]
StrokeUpdateForms == [row_index : {"x", "0", "1"}, gender : {""}, age : {"abc", "31"}]
StrokeDeleteForms == [row_index : {"x", "0", "1"}]

\* str.strip()
strip(s) == IF s = " " THEN "" ELSE s

\* int(s): the number, or ValueError.
int(s) ==
    CASE s = "0" -> [exc |-> None, n |-> 0]
      [] s = "1" -> [exc |-> None, n |-> 1]
      [] s = "2" -> [exc |-> None, n |-> 2]
      [] s = "30" -> [exc |-> None, n |-> 30]
      [] s = "31" -> [exc |-> None, n |-> 31]
      [] OTHER -> [exc |-> "ValueError", n |-> 0]

\* float(s): the number, or ValueError.
float(s) ==
    CASE s = "31" -> [exc |-> None, n |-> 31]
      [] s = "67" -> [exc |-> None, n |-> 67]
      [] OTHER -> [exc |-> "ValueError", n |-> 0]

\* werkzeug's password hashing: the hash is not the password, and a hash
\* checks against the password it was made from only.
generate_password_hash(password) == "pbkdf2:" \o password
\* Variant for comparison: every password passes.
check_password_hash_any(pwhash, password) == TRUE
check_password_hash(pwhash, password) == pwhash = generate_password_hash(password)

\* A driver call made through a handle that may be None.
through(handle, result, coll) ==
    IF handle = None THEN [exc |-> "AttributeError", coll |-> coll, n |-> 0] ELSE result

\* The responses of the routes.
Page(template, message) == [kind |-> "page", to |-> template, message |-> message]
Redirect(route, flash) == [kind |-> "redirect", to |-> route, message |-> flash]

\* Variant for comparison: the role of the session is not compared.
login_required_any_role(role) ==
    IF session.username \in {None, ""}
    THEN Redirect("login", "You must be logged in to access that page.")
    ELSE Page("pass", "")
\* login_required(role): "pass" when the wrapped handler runs, else the
\* redirect to the login page.
login_required(role) ==
    IF session.username \in {None, ""}
    THEN Redirect("login", "You must be logged in to access that page.")
    ELSE IF role # None /\ session.role # role
    THEN Redirect("login", "Access denied: insufficient permissions.")
    ELSE Page("pass", "")

\* app.py's module body, lines 24-25: the handles are taken from mongo.py
\* and db is subscripted; with db None the subscript raises TypeError and
\* the import of app.py fails.
app_import ==
    /\ pc = "ready" /\ appPc = "import"
    /\ IF db = None
       THEN /\ appPc' = "crashed"
            /\ app_users_collection' = users_collection
            /\ UNCHANGED app_patients_collection
       ELSE /\ appPc' = "serving"
            /\ app_users_collection' = users_collection
            /\ app_patients_collection' = "patients"
    /\ UNCHANGED <<mongoVars, storeVars, now, inflight, sql_users, sql_patients, sql_seq, session,
                   stroke_csv>>

\* Variant for comparison: the mirrored insert is sent before the relational one.
register_mirror_first(f) ==
    LET username == strip(f.username)
        same == [response |-> Page("register.html", ""), sql_users |-> sql_users,
                 users |-> users]
    IN IF username = "" \/ f.password = "" \/ f.confirm_password = "" \/ f.role = ""
       THEN [same EXCEPT !.response = Page("register.html", "Please fill all fields.")]
       ELSE IF f.password # f.confirm_password
       THEN [same EXCEPT !.response = Page("register.html", "Passwords do not match.")]
       ELSE LET pwd_hash == generate_password_hash(f.password)
                result == through(app_users_collection,
                                  insert_one(users, "username", usersUnique,
                                             [_id |-> nextOid, username |-> username,
                                              password_hash |-> pwd_hash,
                                              role |-> f.role, created_at |-> now]),
                                  users)
            IN IF \E row \in sql_users : row.username = username
               THEN [response |-> Page("register.html", "Username already exists."),
                     sql_users |-> sql_users, users |-> result.coll]
               ELSE [response |-> Page("register.html", "registered successfully!"),
                     sql_users |-> sql_users \cup {[username |-> username,
                                                    password_hash |-> pwd_hash,
                                                    role |-> f.role]},
                     users |-> result.coll]

\* Each *_request is a route's handler: its response, and the tables and
\* collections afterwards.
register_request(f) ==
    LET username == strip(f.username)
        same == [response |-> Page("register.html", ""), sql_users |-> sql_users,
                 users |-> users]
    IN IF username = "" \/ f.password = "" \/ f.confirm_password = "" \/ f.role = ""
       THEN [same EXCEPT !.response = Page("register.html", "Please fill all fields.")]
       ELSE IF f.password # f.confirm_password
       THEN [same EXCEPT !.response = Page("register.html", "Passwords do not match.")]
       ELSE IF \E row \in sql_users : row.username = username
       THEN [same EXCEPT !.response = Page("register.html", "Username already exists.")]
       ELSE LET pwd_hash == generate_password_hash(f.password)
                result == through(app_users_collection,
                                  insert_one(users, "username", usersUnique,
                                             [_id |-> nextOid, username |-> username,
                                              password_hash |-> pwd_hash,
                                              role |-> f.role, created_at |-> now]),
                                  users)
            IN [response |-> Page("register.html", "registered successfully!"),
                sql_users |-> sql_users \cup {[username |-> username,
                                               password_hash |-> pwd_hash,
                                               role |-> f.role]},
                users |-> result.coll]

login_request(f) ==
    LET username == strip(f.username)
        rows == {row \in sql_users : row.username = username}
    IN IF username = "" \/ f.password = ""
       THEN [response |-> Page("login.html", "Please fill in all fields."),
             session |-> session]
       ELSE IF \E row \in rows : check_password_hash(row.password_hash, f.password)
       THEN LET row == CHOOSE r \in rows : TRUE
            IN [response |-> Redirect(IF row.role = "doctor" THEN "doctor_dashboard"
                                      ELSE IF row.role = "patient" THEN "patient_dashboard"
                                      ELSE "home", ""),
                session |-> [username |-> username, role |-> row.role]]
       ELSE [response |-> Page("login.html", "Invalid username or password."),
             session |-> session]

\* Variant for comparison: only the role is removed from the session.
logout_drops_role_only ==
    [response |-> Redirect("login", ""),
     session |-> [username |-> session.username, role |-> None]]
\* session.clear(): neither key is left.
logout_request ==
    [response |-> Redirect("login", ""), session |-> [username |-> None, role |-> None]]

patients_request(f) ==
    LET name == strip(f.name)
        age_s == strip(f.age)
        cond == strip(f.condition)
        same == [response |-> Page("patients.html", ""), sql_patients |-> sql_patients,
                 sql_seq |-> sql_seq, patients |-> patients]
    IN IF login_required("doctor").kind = "redirect"
       THEN [same EXCEPT !.response = login_required("doctor")]
       ELSE IF name = "" \/ age_s = "" \/ cond = ""
       THEN [same EXCEPT !.response = Page("patients.html", "Fill all fields.")]
       ELSE IF int(age_s).exc # None
       THEN [same EXCEPT !.response = Page("patients.html", "Age must be a number.")]
       ELSE IF int(age_s).n <= 0
       THEN [same EXCEPT !.response = Page("patients.html", "Age must be a positive number.")]
       ELSE LET age == int(age_s).n
                patient_id == sql_seq + 1
                result == through(app_patients_collection,
                                  insert_one(patients, "id", patientsUnique,
                                             [_id |-> nextOid, id |-> patient_id,
                                              name |-> name, age |-> age,
                                              condition |-> cond, created_at |-> now,
                                              added_by |-> session.username,
                                              source |-> "web_form"]),
                                  patients)
            IN [response |-> Page("patients.html", "Patient added."),
                sql_patients |-> sql_patients \cup {[id |-> patient_id, name |-> name,
                                                     age |-> age, condition |-> cond]},
                sql_seq |-> patient_id,
                patients |-> result.coll]

update_patient_request(f) ==
    LET pid == strip(f.id)
        name == strip(f.name)
        age_s == strip(f.age)
        cond == strip(f.condition)
        same == [response |-> Redirect("patients", ""), sql_patients |-> sql_patients,
                 patients |-> patients]
    IN IF login_required("doctor").kind = "redirect"
       THEN [same EXCEPT !.response = login_required("doctor")]
       ELSE IF pid = "" \/ name = "" \/ age_s = "" \/ cond = ""
       THEN [same EXCEPT !.response = Redirect("patients", "Fill all fields for update.")]
       ELSE IF int(pid).exc # None \/ int(age_s).exc # None
       THEN [same EXCEPT !.response = Redirect("patients", "ID and age must be numbers.")]
       ELSE LET pid_i == int(pid).n
                age_i == int(age_s).n
                result == through(app_patients_collection,
                                  update_one_upsert(patients, "id", pid_i,
                                                    [name |-> name, age |-> age_i,
                                                     condition |-> cond]),
                                  patients)
            IN [response |-> Redirect("patients", "updated."),
                sql_patients |-> {IF row.id = pid_i
                                  THEN [id |-> pid_i, name |-> name, age |-> age_i,
                                        condition |-> cond]
                                  ELSE row : row \in sql_patients},
                patients |-> result.coll]

delete_patient_request(f) ==
    LET pid == strip(f.id)
        same == [response |-> Redirect("patients", ""), sql_patients |-> sql_patients,
                 patients |-> patients]
    IN IF login_required("doctor").kind = "redirect"
       THEN [same EXCEPT !.response = login_required("doctor")]
       ELSE IF int(pid).exc # None
       THEN [same EXCEPT !.response = Redirect("patients", "Invalid patient ID.")]
       ELSE LET pid_i == int(pid).n
                result == through(app_patients_collection,
                                  delete_one(patients, "id", pid_i), patients)
            IN [response |-> Redirect("patients", "deleted."),
                sql_patients |-> {row \in sql_patients : row.id # pid_i},
                patients |-> result.coll]

doctor_dashboard_request ==
    IF login_required("doctor").kind = "redirect"
    THEN [response |-> login_required("doctor")]
    ELSE [response |-> Page("doctor_dashboard.html", "")]

patient_dashboard_request ==
    IF login_required("patient").kind = "redirect"
    THEN [response |-> login_required("patient")]
    ELSE [response |-> Page("patient_dashboard.html", "")]

\* The CSV routes address a row by its position, counted from 0.  A value
\* for age is converted by float(); a failure of int() or of the file
\* access is caught and flashed, and nothing is written.
update_stroke_row_request(f) ==
    LET same == [response |-> Redirect("patients", ""), stroke_csv |-> stroke_csv]
        idx == int(f.row_index)
    IN IF login_required("doctor").kind = "redirect"
       THEN [same EXCEPT !.response = login_required("doctor")]
       ELSE IF idx.exc # None
       THEN [same EXCEPT !.response = Redirect("patients", "Update error")]
       ELSE IF idx.n < 0 \/ idx.n >= Len(stroke_csv)
       THEN [same EXCEPT !.response = Redirect("patients", "Row not found.")]
       ELSE IF f.age # "" /\ float(f.age).exc # None
       THEN [same EXCEPT !.response = Redirect("patients", "Invalid value for age.")]
       ELSE LET row == stroke_csv[idx.n + 1]
                new == [gender |-> IF f.gender # "" THEN f.gender ELSE row.gender,
                        age |-> IF f.age # "" THEN float(f.age).n ELSE row.age]
            IN [response |-> Redirect("patients", "Row updated."),
                stroke_csv |-> [stroke_csv EXCEPT ![idx.n + 1] = new]]

delete_stroke_row_request(f) ==
    LET same == [response |-> Redirect("patients", ""), stroke_csv |-> stroke_csv]
        idx == int(f.row_index)
    IN IF login_required("doctor").kind = "redirect"
       THEN [same EXCEPT !.response = login_required("doctor")]
       ELSE IF idx.exc # None
       THEN [same EXCEPT !.response = Redirect("patients", "Delete error")]
       ELSE IF idx.n < 0 \/ idx.n >= Len(stroke_csv)
       THEN [same EXCEPT !.response = Redirect("patients", "Row not found.")]
       ELSE [response |-> Redirect("patients", "Row deleted."),
             stroke_csv |-> RemoveAt(stroke_csv, idx.n + 1)]

\* The dashboards render a template and change nothing.
doctor_dashboard ==
    /\ appPc = "serving"
    /\ doctor_dashboard_request.response.kind \in {"page", "redirect"}
    /\ UNCHANGED vars

patient_dashboard ==
    /\ appPc = "serving"
    /\ patient_dashboard_request.response.kind \in {"page", "redirect"}
    /\ UNCHANGED vars

update_stroke_row(f) ==
    /\ appPc = "serving"
    /\ stroke_csv' = update_stroke_row_request(f).stroke_csv
    /\ UNCHANGED <<mongoVars, storeVars, now, inflight, appPc, app_users_collection,
                   app_patients_collection, sql_users, sql_patients, sql_seq, session>>

delete_stroke_row(f) ==
    /\ appPc = "serving"
    /\ stroke_csv' = delete_stroke_row_request(f).stroke_csv
    /\ UNCHANGED <<mongoVars, storeVars, now, inflight, appPc, app_users_collection,
                   app_patients_collection, sql_users, sql_patients, sql_seq, session>>

register(f) ==
    /\ appPc = "serving"
    /\ nextOid <= MaxInserts
    /\ LET c == register_request(f)
       IN /\ sql_users' = c.sql_users
          /\ users' = c.users
          /\ nextOid' = IF Len(c.users) > Len(users) THEN nextOid + 1 ELSE nextOid
    /\ UNCHANGED <<mongoVars, storeUp, usersUnique, patientsUnique, patients, now, inflight,
                   appPc, stroke_csv, app_users_collection, app_patients_collection,
                   sql_patients, sql_seq, session>>

login(f) ==
    /\ appPc = "serving"
    /\ session' = login_request(f).session
    /\ UNCHANGED <<mongoVars, storeVars, now, inflight, appPc, stroke_csv, app_users_collection,
                   app_patients_collection, sql_users, sql_patients, sql_seq>>

logout ==
    /\ appPc = "serving"
    /\ session' = logout_request.session
    /\ UNCHANGED <<mongoVars, storeVars, now, inflight, appPc, stroke_csv, app_users_collection,
                   app_patients_collection, sql_users, sql_patients, sql_seq>>

patients_post(f) ==
    /\ appPc = "serving"
    /\ nextOid <= MaxInserts /\ sql_seq < MaxInserts
    /\ LET c == patients_request(f)
       IN /\ sql_patients' = c.sql_patients
          /\ sql_seq' = c.sql_seq
          /\ patients' = c.patients
          /\ nextOid' = IF Len(c.patients) > Len(patients) THEN nextOid + 1 ELSE nextOid
    /\ UNCHANGED <<mongoVars, storeUp, usersUnique, patientsUnique, users, now, inflight,
                   appPc, stroke_csv, app_users_collection, app_patients_collection,
                   sql_users, session>>

patients_update(f) ==
    /\ appPc = "serving"
    /\ nextOid <= MaxInserts
    /\ LET c == update_patient_request(f)
       IN /\ sql_patients' = c.sql_patients
          /\ patients' = c.patients
          /\ nextOid' = IF Len(c.patients) > Len(patients) THEN nextOid + 1 ELSE nextOid
    /\ UNCHANGED <<mongoVars, storeUp, usersUnique, patientsUnique, users, now, inflight,
                   appPc, stroke_csv, app_users_collection, app_patients_collection,
                   sql_users, sql_seq, session>>

patients_delete(f) ==
    /\ appPc = "serving"
    /\ LET c == delete_patient_request(f)
       IN /\ sql_patients' = c.sql_patients
          /\ patients' = c.patients
    /\ UNCHANGED <<mongoVars, storeUp, usersUnique, patientsUnique, users, nextOid, now, inflight,
                   appPc, stroke_csv, app_users_collection, app_patients_collection,
                   sql_users, sql_seq, session>>

\* ------------------------------------------------------------ environment
StoreDown ==
    /\ storeUp
    /\ storeUp' = FALSE
    /\ UNCHANGED <<mongoVars, usersUnique, patientsUnique, users, patients, nextOid, now, appVars, inflight>>

StoreUp ==
    /\ ~storeUp
    /\ storeUp' = TRUE
    /\ UNCHANGED <<mongoVars, usersUnique, patientsUnique, users, patients, nextOid, now, appVars, inflight>>

Tick ==
    /\ now < MaxTime
    /\ now' = now + 1
    /\ UNCHANGED <<mongoVars, storeVars, appVars, inflight>>

Init ==
    /\ MONGO_URI \in UriInputs
    /\ pc = "import"
    /\ client = None /\ db = None
    /\ users_collection = None /\ patients_collection = None
    /\ storeUp \in BOOLEAN
    /\ usersUnique = FALSE /\ patientsUnique = FALSE
    /\ users = <<>> /\ patients = <<>>
    /\ nextOid = 1
    /\ now = 0
    /\ appPc = "import"
    /\ app_users_collection = None /\ app_patients_collection = None
    /\ sql_users = {} /\ sql_patients = {}
    /\ sql_seq = 0
    /\ session = [username |-> None, role |-> None]
    /\ inflight = [t \in Threads |-> Idle]
    /\ stroke_csv = <<[gender |-> "Male", age |-> 67]>>

Next ==
    \/ module_init
    \/ StoreDown
    \/ StoreUp
    \/ Tick
    \/ \E u \in Usernames, h \in PasswordHashes, r \in RoleInputs : insert_user(u, h, r)
    \/ \E i \in PatientIds, n \in Names, a \in InsertAges, c \in Conditions, by \in AddedBy :
         insert_patient(i, n, a, c, by)
    \/ \E i \in PatientIds, upd \in UpdateInputs : update_patient(i, upd)
    \/ \E i \in PatientIds : delete_patient(i)

Spec == Init /\ [][Next]_vars

\* The web application: mongo.py is imported by app.py, then the routes
\* serve.  The clock stands still here: the routes read it only to stamp
\* created_at.
AppNext ==
    \/ module_init
    \/ app_import
    \/ StoreDown
    \/ StoreUp
    \/ \E f \in RegisterForms : register(f)
    \/ \E f \in LoginForms : login(f)
    \/ logout
    \/ \E f \in PatientForms : patients_post(f)
    \/ \E f \in UpdateForms : patients_update(f)
    \/ \E f \in DeleteForms : patients_delete(f)
    \/ doctor_dashboard
    \/ patient_dashboard
    \/ \E f \in StrokeUpdateForms : update_stroke_row(f)
    \/ \E f \in StrokeDeleteForms : delete_stroke_row(f)

AppSpec == Init /\ [][AppNext]_vars

\* The routes and the session: two people register, log in and out and
\* call the protected routes, the document store staying as it was when the
\* application started.
AuthNext ==
    \/ module_init
    \/ app_import
    \/ \E f \in AuthRegisterForms : register(f)
    \/ \E f \in LoginForms : login(f)
    \/ logout
    \/ \E f \in PatientForms : patients_post(f)
    \/ \E f \in UpdateForms : patients_update(f)
    \/ \E f \in DeleteForms : patients_delete(f)
    \/ doctor_dashboard
    \/ patient_dashboard
    \/ \E f \in StrokeUpdateForms : update_stroke_row(f)
    \/ \E f \in StrokeDeleteForms : delete_stroke_row(f)

AuthSpec == Init /\ [][AuthNext]_vars

\* The operations of both layers side by side, for the user documents:
\* insert_user and the registration route with all their inputs, each
\* patient operation with one input (none of them names the users
\* collection), the document store staying as it was at startup.
UsersNext ==
    \/ module_init
    \/ app_import
    \/ Tick
    \/ \E u \in Usernames, h \in PasswordHashes, r \in RoleInputs : insert_user(u, h, r)
    \/ \E f \in RegisterForms : register(f)
    \/ \E f \in LoginForms : login(f)
    \/ logout
    \/ insert_patient(1, "A", 30, "X", "doc1")
    \/ update_patient(1, [age |-> 31])
    \/ delete_patient(1)
    \/ patients_post([name |-> "A", age |-> "30", condition |-> "X"])
    \/ patients_update([id |-> "1", name |-> "B", age |-> "31", condition |-> "X"])
    \/ patients_delete([id |-> "1"])

UsersSpec == Init /\ [][UsersNext]_vars

\* Two caller threads inside insert_user at the same time.
RaceNext ==
    \/ module_init
    \/ StoreDown
    \/ StoreUp
    \/ Tick
    \/ \E t \in Threads, u \in Usernames, h \in PasswordHashes, r \in RoleInputs :
         insert_user_enter(t, u, h, r)
    \/ \E t \in Threads : insert_user_store(t)
    \/ \E t \in Threads : insert_user_return(t)

RaceSpec == Init /\ [][RaceNext]_vars

\* ------------------------------------------------------------------ claims
Connected == pc = "ready" /\ users_collection # None /\ patients_collection # None
Disconnected == pc = "ready" /\ users_collection = None /\ patients_collection = None
Answered == Connected /\ storeUp
HasId(i) == Matches(patients, "id", i) # {}
HasUser(u) == Matches(users, "username", u) # {}
StructuredFailure(r) ==
    /\ ~Raised(r)
    /\ DOMAIN r = {"success", "error"}
    /\ r.success = FALSE

\* C1: in every reachable state, whatever the store does (answers, fails on
\* the call, rejects the write for a duplicate key), each call of
\* insert_user, insert_patient, update_patient and delete_patient returns a
\* record with a success flag and never leaves by an exception; when the
\* store fails on the call or rejects the write the record is
\* {success: false, error: <string>}.
C1_NoMutationRaises ==
    pc = "ready" =>
      /\ \A u \in Usernames, h \in PasswordHashes, r \in RoleInputs :
           LET c == insert_user_call(u, h, r)
           IN /\ ~Raised(c.ret) /\ "success" \in DOMAIN c.ret
              /\ (~storeUp \/ (usersUnique /\ HasUser(u))) => StructuredFailure(c.ret)
      /\ \A i \in PatientIds, n \in Names, a \in Ages, cd \in Conditions, by \in AddedBy :
           LET c == insert_patient_call(i, n, a, cd, by)
           IN /\ ~Raised(c.ret) /\ "success" \in DOMAIN c.ret
              /\ (~storeUp \/ (patientsUnique /\ HasId(i))) => StructuredFailure(c.ret)
      /\ \A i \in PatientIds, upd \in UpdateInputs :
           LET c == update_patient_call(i, upd)
           IN /\ ~Raised(c.ret) /\ "success" \in DOMAIN c.ret
              /\ ~storeUp => StructuredFailure(c.ret)
      /\ \A i \in PatientIds :
           LET c == delete_patient_call(i)
           IN /\ ~Raised(c.ret) /\ "success" \in DOMAIN c.ret
              /\ ~storeUp => StructuredFailure(c.ret)

\* C1 witness: the unique index rejects a second insert of a stored username
\* and the call returns the structured failure carrying the driver's message.
C1_Witness ==
    /\ Connected /\ storeUp /\ usersUnique /\ HasUser("doc1")
    /\ insert_user_call("doc1", "h1", "doctor").ret
         = Failure(str_exc("DuplicateKeyError"))

\* C2: with the collection handles absent, every call of the four mutation
\* functions returns {success: false, error: "MongoDB not connected"} and
\* leaves the collection alone, get_all_users and get_all_patients return
\* the empty sequence, the counts are 0, nothing raises, and no call of a
\* mongo.py function changes the handles.
C2_State ==
    Disconnected =>
      /\ \A u \in Usernames, h \in PasswordHashes, r \in RoleInputs :
           insert_user_call(u, h, r)
             = [ret |-> Failure("MongoDB not connected"), coll |-> users]
      /\ \A i \in PatientIds, n \in Names, a \in Ages, cd \in Conditions, by \in AddedBy :
           insert_patient_call(i, n, a, cd, by)
             = [ret |-> Failure("MongoDB not connected"), coll |-> patients]
      /\ \A i \in PatientIds, upd \in UpdateInputs :
           update_patient_call(i, upd)
             = [ret |-> Failure("MongoDB not connected"), coll |-> patients]
      /\ \A i \in PatientIds :
           delete_patient_call(i)
             = [ret |-> Failure("MongoDB not connected"), coll |-> patients]
      /\ get_all_users = <<>> /\ get_all_patients = <<>>
      /\ get_patient_count = 0 /\ get_user_count = 0
C2_Action == pc = "ready" => handles' = handles
C2_DisconnectedMode == []C2_State /\ [][C2_Action]_vars

\* C2 witness: the process started without a reachable store, the handles
\* are absent, the store has come up since and a call still reports
\* "MongoDB not connected".
C2_Witness ==
    /\ Disconnected /\ storeUp /\ MONGO_URI = "mongodb://host"
    /\ delete_patient_call(1).ret = Failure("MongoDB not connected")

\* The writing routes answer normally once the relational write is done,
\* whatever the document store does with the mirrored write.
RoutesAnswerNormally ==
    /\ \A f \in RegisterForms :
         LET c == register_request(f)
         IN c.sql_users # sql_users
              => c.response = Page("register.html", "registered successfully!")
    /\ \A f \in PatientForms :
         LET c == patients_request(f)
         IN c.sql_patients # sql_patients
              => c.response = Page("patients.html", "Patient added.")
    /\ \A f \in UpdateForms :
         LET c == update_patient_request(f)
         IN c.sql_patients # sql_patients
              => c.response = Redirect("patients", "updated.")
    /\ \A f \in DeleteForms :
         LET c == delete_patient_request(f)
         IN c.sql_patients # sql_patients
              => c.response = Redirect("patients", "deleted.")

\* C3: whatever the document store does, also when it is unreachable at
\* process start and the database and collection handles are absent, the
\* application comes up and serves, and every request that writes a user or
\* patient completes with its normal success response once the relational
\* write is committed.
C3_MirrorNeverStopsApp ==
    /\ appPc # "crashed"
    /\ appPc = "serving" => RoutesAnswerNormally

\* The record get_patient_by_id shows for an insert of these values.
ShowsInserted(p, i, n, a, cd, by) ==
    /\ p # NoneDoc
    /\ p.id = i /\ p.name = n /\ p.age = a /\ p.condition = cd
    /\ p.added_by = by /\ p.source = "web_form"

\* C4 as stated: after every insert_patient(N, name, age, condition,
\* added_by) that returns success, get_patient_by_id(N) returns a record
\* holding the inserted values and source "web_form".
C4_Original ==
    [][\A i \in PatientIds, n \in Names, a \in InsertAges, cd \in Conditions, by \in AddedBy :
         (insert_patient(i, n, a, cd, by) /\ insert_patient_call(i, n, a, cd, by).ret.success)
           => ShowsInserted(get_patient_by_id(i)', i, n, a, cd, by)]_vars

\* C4 amended: after an insert_patient(N, ...) that returns success while no
\* other document with id N is in the collection, get_patient_by_id(N)
\* returns a record holding the inserted id, name, age, condition and
\* added_by and source "web_form".
C4_InsertThenGet ==
    [][\A i \in PatientIds, n \in Names, a \in InsertAges, cd \in Conditions, by \in AddedBy :
         (/\ insert_patient(i, n, a, cd, by)
          /\ insert_patient_call(i, n, a, cd, by).ret.success
          /\ ~HasId(i))
           => ShowsInserted(get_patient_by_id(i)', i, n, a, cd, by)]_vars

\* C4 witness: one document with id 1 is stored and get_patient_by_id(1)
\* shows the values of its insert.
C4_Witness ==
    /\ Answered /\ Cardinality(Matches(patients, "id", 1)) = 1
    /\ ShowsInserted(get_patient_by_id(1), 1, "A", 30, "X", "doc1")

\* C5: when update_patient(id, fields) is called on an id whose record
\* get_patient_by_id shows, the record shown afterwards has the named fields
\* at the given values and every other field (id, created_at, added_by,
\* source, the unnamed fields) as before; the stored document keeps its
\* identity and every other document of the collection is unchanged.
C5_Action ==
    \A i \in PatientIds, upd \in UpdateInputs :
      (update_patient(i, upd) /\ get_patient_by_id(i) # NoneDoc) =>
        LET before == get_patient_by_id(i)
            after == get_patient_by_id(i)'
            k == FirstMatch(patients, "id", i)
        IN /\ after # NoneDoc
           /\ DOMAIN after = DOMAIN before
           /\ \A f \in DOMAIN upd : after[f] = upd[f]
           /\ \A f \in DOMAIN before \ DOMAIN upd : after[f] = before[f]
           /\ Len(patients') = Len(patients)
           /\ patients'[k]._id = patients[k]._id
           /\ \A j \in 1..Len(patients) : j # k => patients'[j] = patients[j]
C5_UpdateFrame == [][C5_Action]_vars

\* C5 witness: a stored patient shows age 31, which only an update gives,
\* beside a second patient that still shows the inserted age.
C5_Witness ==
    /\ Answered /\ HasId(1) /\ HasId(2)
    /\ get_patient_by_id(1).age = 31 /\ get_patient_by_id(1).source = "web_form"
    /\ get_patient_by_id(2).age = 30

\* C6: a call of insert_patient that returns success raises
\* get_patient_count() by exactly 1, a call of delete_patient on an existing
\* id that returns success lowers it by exactly 1, and a call of either that
\* returns success=false leaves the collection, and so the count, unchanged.
C6_Action ==
    /\ \A i \in PatientIds, n \in Names, a \in InsertAges, cd \in Conditions, by \in AddedBy :
         insert_patient(i, n, a, cd, by) =>
           IF insert_patient_call(i, n, a, cd, by).ret.success
           THEN get_patient_count' = get_patient_count + 1
           ELSE get_patient_count' = get_patient_count
    /\ \A i \in PatientIds :
         delete_patient(i) =>
           IF delete_patient_call(i).ret.success
           THEN HasId(i) /\ get_patient_count' = get_patient_count - 1
           ELSE get_patient_count' = get_patient_count
C6_State ==
    pc = "ready" =>
      /\ \A i \in PatientIds, n \in Names, a \in InsertAges, cd \in Conditions, by \in AddedBy :
           LET c == insert_patient_call(i, n, a, cd, by)
           IN ~c.ret.success => c.coll = patients
      /\ \A i \in PatientIds :
           LET c == delete_patient_call(i)
           IN ~c.ret.success => c.coll = patients
C6_CountSteps == []C6_State /\ [][C6_Action]_vars

\* C6 witness: two patients were inserted and one of them deleted; the count is 1.
C6_Witness ==
    /\ Answered /\ users = <<>> /\ nextOid = 3 /\ get_patient_count = 1

\* C7: a call of delete_patient the store answers, for an id with no
\* document in the patients collection, returns {success: false, error:
\* "Patient not found"} and leaves the collection and get_patient_count()
\* unchanged, so that a repeated call meets the same state and gives the
\* same result.
C7_DeleteAbsent ==
    Answered =>
      \A i \in PatientIds :
        ~HasId(i) =>
          LET c == delete_patient_call(i)
          IN /\ c.ret = Failure("Patient not found")
             /\ c.coll = patients
             /\ Len(c.coll) = get_patient_count

\* C7 witness: a patient is stored under id 1, none under id 2, and
\* delete_patient(2) reports "Patient not found".
C7_Witness ==
    /\ Answered /\ HasId(1) /\ ~HasId(2)
    /\ delete_patient_call(2).ret = Failure("Patient not found")

\* C8 as stated: after every delete_patient(id) that returns success,
\* get_patient_by_id(id) returns None.
C8_Original ==
    [][\A i \in PatientIds :
         (delete_patient(i) /\ delete_patient_call(i).ret.success)
           => get_patient_by_id(i)' = NoneDoc]_vars

\* C8 amended: after a delete_patient(id) that returns success and removed
\* the only document with that id, no document has the id and
\* get_patient_by_id(id) returns None in every later state until a later
\* insert_patient of that id succeeds.
C8_Action ==
    \A i \in PatientIds :
      /\ (/\ delete_patient(i)
          /\ delete_patient_call(i).ret.success
          /\ Cardinality(Matches(patients, "id", i)) = 1)
           => (~HasId(i))'
      /\ (~HasId(i) /\ (HasId(i))') =>
           \E n \in Names, a \in InsertAges, cd \in Conditions, by \in AddedBy :
             /\ insert_patient(i, n, a, cd, by)
             /\ insert_patient_call(i, n, a, cd, by).ret.success
C8_State == \A i \in PatientIds : ~HasId(i) => get_patient_by_id(i) = NoneDoc
C8_DeletedStaysAbsent == []C8_State /\ [][C8_Action]_vars

\* C8 witness: the only patient ever inserted was deleted; the store answers
\* and get_patient_by_id returns None for its id.
C8_Witness ==
    /\ Answered /\ users = <<>> /\ patients = <<>> /\ nextOid = 2
    /\ get_patient_by_id(1) = NoneDoc

\* C9: update_patient(id, fields) returns success=true exactly when the
\* call changes the stored document; a call the store answers returns
\* {success: false, error: "Patient not found"} both when no document has
\* the id and when the document found already holds every named value, and
\* the collection is then unchanged.
C9_UpdateResult ==
    pc = "ready" =>
      \A i \in PatientIds, upd \in UpdateInputs :
        LET c == update_patient_call(i, upd)
        IN /\ c.ret.success <=> c.coll # patients
           /\ c.ret.success =>
                /\ HasId(i)
                /\ \E f \in DOMAIN upd :
                     patients[FirstMatch(patients, "id", i)][f] # upd[f]
           /\ (Answered /\ ~HasId(i)) =>
                c = [ret |-> Failure("Patient not found"), coll |-> patients]
           /\ (/\ Answered /\ HasId(i)
               /\ \A f \in DOMAIN upd :
                    patients[FirstMatch(patients, "id", i)][f] = upd[f]) =>
                c = [ret |-> Failure("Patient not found"), coll |-> patients]

\* C9 witness: the patient with id 1 is named "A" already and
\* update_patient(1, {name: "A"}) reports "Patient not found".
C9_Witness ==
    /\ Answered /\ HasId(1)
    /\ patients[FirstMatch(patients, "id", 1)].name = "A"
    /\ update_patient_call(1, [name |-> "A"]).ret = Failure("Patient not found")

\* The records of get_all_users with this username.
UsersNamed(all, u) == {k \in 1..Len(all) : all[k].username = u}

\* C10 as stated: after every insert_user(username, password_hash, role)
\* that returns success, get_all_users holds exactly one record with that
\* username, with the inserted password_hash and role and a created_at no
\* earlier than the time of the call.
C10_Original ==
    [][\A u \in Usernames, h \in PasswordHashes, r \in RoleInputs :
         (insert_user(u, h, r) /\ insert_user_call(u, h, r).ret.success) =>
           LET all == get_all_users'
           IN /\ Cardinality(UsersNamed(all, u)) = 1
              /\ \A k \in UsersNamed(all, u) :
                   /\ all[k].password_hash = h /\ all[k].role = r
                   /\ all[k].created_at >= now]_vars

\* C10 amended: after an insert_user(username, password_hash, role) that
\* returns success while no other document with that username is in the
\* collection, get_all_users holds exactly one record with that username,
\* with the inserted password_hash and role and a created_at no earlier
\* than the time of the call.
C10_InsertThenList ==
    [][\A u \in Usernames, h \in PasswordHashes, r \in RoleInputs :
         (insert_user(u, h, r) /\ insert_user_call(u, h, r).ret.success /\ ~HasUser(u)) =>
           LET all == get_all_users'
           IN /\ Cardinality(UsersNamed(all, u)) = 1
              /\ \A k \in UsersNamed(all, u) :
                   /\ all[k].password_hash = h /\ all[k].role = r
                   /\ all[k].created_at >= now]_vars

\* C10 witness: doc1 was inserted after the clock advanced and get_all_users
\* lists that one record, stamped with the later time.
C10_Witness ==
    /\ Answered /\ Cardinality(UsersNamed(get_all_users, "doc1")) = 1
    /\ \A k \in UsersNamed(get_all_users, "doc1") :
         get_all_users[k].role = "doctor" /\ get_all_users[k].created_at = 1

\* A call of insert_user for a stored username fails with an error message
\* and leaves the users collection as it was.
RejectsStored(u, h, r) ==
    LET c == insert_user_call(u, h, r)
    IN /\ StructuredFailure(c.ret)
       /\ c.coll = users

\* Thread t's insert reaches the store while thread o is inside a call for
\* the same username, no document has the username and the store answers.
RacingFirst(t, o) ==
    /\ t # o
    /\ insert_user_store(t)
    /\ inflight[o].stage = "built"
    /\ inflight[o].user_doc.username = inflight[t].user_doc.username
    /\ ~HasUser(inflight[t].user_doc.username)
    /\ storeUp

\* Of the two, the first to reach the store returns success and the other
\* can no longer return success.
ExactlyOneWins(t, o) ==
    /\ inflight'[t].ret.success
    /\ (~insert_user_finish(o).ret.success)'

\* C11 as stated: insert_user for a username that has a document returns
\* {success: false, error: <message>} and leaves the collection unchanged,
\* and of two concurrent insert_user calls for one username exactly one
\* returns success.
C11_Original ==
    /\ [](pc = "ready" =>
            \A u \in Usernames, h \in PasswordHashes, r \in RoleInputs :
              HasUser(u) => RejectsStored(u, h, r))
    /\ [][\A t, o \in Threads : RacingFirst(t, o) => ExactlyOneWins(t, o)]_vars

\* C11 amended: where the unique index on username was created at startup,
\* insert_user for a username that has a document returns {success: false,
\* error: <message>} and leaves the collection unchanged, and of two
\* concurrent insert_user calls for one username that the store answers, the
\* first to reach the store returns success and the other does not.
C11_State ==
    (pc = "ready" /\ usersUnique) =>
      /\ \A u \in Usernames, h \in PasswordHashes, r \in RoleInputs :
           HasUser(u) => RejectsStored(u, h, r)
      /\ \A t \in Threads :
           (inflight[t].stage = "built" /\ HasUser(inflight[t].user_doc.username)) =>
             LET c == insert_user_finish(t)
             IN StructuredFailure(c.ret) /\ c.coll = users
      /\ \A u \in Usernames : Cardinality(Matches(users, "username", u)) <= 1
C11_Action ==
    \A t, o \in Threads : (usersUnique /\ RacingFirst(t, o)) => ExactlyOneWins(t, o)
C11_DuplicateRejected == []C11_State /\ [][C11_Action]_vars

\* C11 witness: both threads called insert_user for doc1 and both have their
\* result: one success, one duplicate-key failure, one document stored.
C11_Witness ==
    /\ usersUnique
    /\ inflight[1].stage = "returned" /\ inflight[2].stage = "returned"
    /\ inflight[1].username = "doc1" /\ inflight[2].username = "doc1"
    /\ inflight[1].ret.success
    /\ inflight[2].ret = Failure(str_exc("DuplicateKeyError"))
    /\ Cardinality(Matches(users, "username", "doc1")) = 1

\* C12 as stated: in every state of a process whose startup connection
\* succeeded, whatever insert_patient, update_patient and delete_patient
\* calls ran, the patients collection holds at most one document per id.
C12_Original ==
    Connected => \A i \in PatientIds : Cardinality(Matches(patients, "id", i)) <= 1

\* C12 amended: in every state of a process whose startup connection
\* succeeded and whose startup created the unique index on id, whatever
\* insert_patient, update_patient and delete_patient calls ran, the patients
\* collection holds at most one document per id.
C12_OnePerId ==
    (Connected /\ patientsUnique) =>
      \A i \in PatientIds : Cardinality(Matches(patients, "id", i)) <= 1

\* C12 witness: with the index in place both ids are stored once and a
\* further insert_patient of id 1 is rejected.
C12_Witness ==
    /\ Answered /\ patientsUnique /\ HasId(1) /\ HasId(2)
    /\ insert_patient_call(1, "B", 30, "X", "doc1").ret
         = Failure(str_exc("DuplicateKeyError"))

\* The internal identity of the document a successful insert appended.
Appended(coll) == coll[Len(coll)]._id
\* No record of a query result has the internal identity field.
QueriesHideIdentity ==
    /\ \A k \in 1..Len(get_all_users) : "_id" \notin DOMAIN get_all_users[k]
    /\ \A k \in 1..Len(get_all_patients) : "_id" \notin DOMAIN get_all_patients[k]
    /\ \A i \in PatientIds : "_id" \notin DOMAIN get_patient_by_id(i)
\* The results of update_patient and delete_patient hold a flag and a count
\* or a message, nothing else.
UpdateDeleteHideIdentity ==
    /\ \A i \in PatientIds, upd \in UpdateInputs :
         DOMAIN update_patient_call(i, upd).ret
           \in {{"success", "error"}, {"success", "modified_count"}}
    /\ \A i \in PatientIds :
         DOMAIN delete_patient_call(i).ret
           \in {{"success", "error"}, {"success", "deleted_count"}}

\* C13 as stated: no value returned by insert_user, insert_patient,
\* update_patient, delete_patient, get_all_users, get_all_patients or
\* get_patient_by_id carries the internal identity of a document.
C13_Original ==
    pc = "ready" =>
      /\ QueriesHideIdentity
      /\ UpdateDeleteHideIdentity
      /\ \A u \in Usernames, h \in PasswordHashes, r \in RoleInputs :
           LET c == insert_user_call(u, h, r)
           IN c.ret.success =>
                \A f \in DOMAIN c.ret \ {"success"} : c.ret[f] # ToString(Appended(c.coll))
      /\ \A i \in PatientIds, n \in Names, a \in InsertAges, cd \in Conditions, by \in AddedBy :
           LET c == insert_patient_call(i, n, a, cd, by)
           IN c.ret.success =>
                \A f \in DOMAIN c.ret \ {"success"} : c.ret[f] # ToString(Appended(c.coll))

\* C13 amended: no value returned by update_patient, delete_patient,
\* get_all_users, get_all_patients or get_patient_by_id carries the internal
\* identity of a document; a successful insert_user or insert_patient returns
\* the identity of the inserted document as a string (user_id, patient_id).
C13_IdentityOnlyFromInsert ==
    pc = "ready" =>
      /\ QueriesHideIdentity
      /\ UpdateDeleteHideIdentity
      /\ \A u \in Usernames, h \in PasswordHashes, r \in RoleInputs :
           LET c == insert_user_call(u, h, r)
           IN c.ret.success =>
                c.ret = [success |-> TRUE, user_id |-> ToString(Appended(c.coll))]
      /\ \A i \in PatientIds, n \in Names, a \in InsertAges, cd \in Conditions, by \in AddedBy :
           LET c == insert_patient_call(i, n, a, cd, by)
           IN c.ret.success =>
                c.ret = [success |-> TRUE, patient_id |-> ToString(Appended(c.coll))]

\* C13 witness: a user and a patient are stored, each with its internal
\* identity, and the queries list them.
C13_Witness ==
    /\ Answered /\ Len(get_all_users) = 1 /\ Len(get_all_patients) = 1
    /\ "_id" \in DOMAIN users[1] /\ "_id" \in DOMAIN patients[1]
    /\ get_patient_by_id(patients[1].id) # NoneDoc

\* The startup call of connect_to_mongodb fails: the endpoint is not
\* configured, the client cannot be built from it, or the ping gets no answer.
ConnectFails == MONGO_URI \in {None, "bad"} \/ ~storeUp

\* C14: when connect_to_mongodb fails at any step (endpoint not configured,
\* client construction fails, ping fails or times out) it returns the tuple
\* of four None without raising, the import of mongo.py completes, and
\* afterwards client, db, users_collection and patients_collection are all
\* None.
C14_State ==
    (pc = "import" /\ ConnectFails) =>
      \A outcome \in IndexOutcomes : connect_to_mongodb(outcome).ret = NoHandles
C14_Action ==
    (module_init /\ ConnectFails) => (pc' = "ready" /\ handles' = NoHandles)
C14_FailedConnectLeavesNoHandles == []C14_State /\ [][C14_Action]_vars

\* C14 witness: the endpoint was configured, the ping failed at startup, and
\* the process runs with all four handles None although the store answers now.
C14_Witness ==
    /\ pc = "ready" /\ MONGO_URI = "mongodb://host" /\ storeUp
    /\ handles = NoHandles

\* C15: connect_to_mongodb runs once, at import; no later step changes the
\* handles: after a failed startup they stay None, and after a successful
\* startup they stay in place when the store stops answering, while
\* is_mongodb_connected returns False then (it returns True exactly when
\* there is a client and the ping is answered).
C15_State ==
    pc = "ready" =>
      /\ is_mongodb_connected <=> (client # None /\ storeUp)
      /\ (Connected /\ ~storeUp) => (~is_mongodb_connected /\ client # None /\ db # None)
C15_Action ==
    /\ module_init => pc = "import"
    /\ pc = "ready" => (pc' = "ready" /\ handles' = handles)
C15_NoReconnect == []C15_State /\ [][C15_Action]_vars

\* C15 witness: the startup connected, a patient was stored, the store has
\* stopped answering since: the handles are in place and
\* is_mongodb_connected returns False.
C15_Witness ==
    /\ Connected /\ ~storeUp /\ patients # <<>>
    /\ ~is_mongodb_connected

\* C16: when the ping succeeds at startup, connect_to_mongodb returns the
\* client, database and both collection handles whatever happens to the index
\* declarations; with an index missing the later calls are answered by the
\* store, none reports "MongoDB not connected", and the queries return what
\* is stored.
C16_State ==
    (Connected /\ ~(usersUnique /\ patientsUnique)) =>
      /\ \A u \in Usernames, h \in PasswordHashes, r \in RoleInputs :
           insert_user_call(u, h, r).ret # Failure("MongoDB not connected")
      /\ \A i \in PatientIds, n \in Names, a \in InsertAges, cd \in Conditions, by \in AddedBy :
           /\ insert_patient_call(i, n, a, cd, by).ret # Failure("MongoDB not connected")
           /\ (storeUp /\ ~HasId(i)) => insert_patient_call(i, n, a, cd, by).ret.success
      /\ \A i \in PatientIds, upd \in UpdateInputs :
           update_patient_call(i, upd).ret # Failure("MongoDB not connected")
      /\ \A i \in PatientIds :
           /\ delete_patient_call(i).ret # Failure("MongoDB not connected")
           /\ (storeUp /\ HasId(i)) =>
                (delete_patient_call(i).ret.success /\ get_patient_by_id(i) # NoneDoc)
      /\ storeUp => (get_patient_count = Len(patients) /\ get_user_count = Len(users)
                     /\ Len(get_all_patients) = Len(patients)
                     /\ Len(get_all_users) = Len(users))
C16_Action ==
    (module_init /\ ~ConnectFails) =>
      (db' # None /\ users_collection' # None /\ patients_collection' # None)
C16_IndexFailureKeepsHandles == []C16_State /\ [][C16_Action]_vars

\* C16 witness: neither unique index exists, the handles are live, and a
\* patient inserted since is found by get_patient_by_id.
C16_Witness ==
    /\ Connected /\ storeUp /\ ~usersUnique /\ ~patientsUnique
    /\ get_patient_by_id(1) # NoneDoc /\ get_patient_count = 1

\* The session holds a username and the role a route requires.
Allowed(role) == session.username \notin {None, ""} /\ session.role = role
\* The response that sends the browser to the login page.
ToLogin(response) == response.kind = "redirect" /\ response.to = "login"

\* The requests to the routes that require the doctor role: each one's
\* response, and whether it leaves the relational tables, the mirrored
\* collections and the CSV file as they are.
DoctorRequests ==
    {[response |-> doctor_dashboard_request.response, unchanged |-> TRUE]}
    \cup {[response |-> patients_request(f).response,
           unchanged |-> /\ patients_request(f).sql_patients = sql_patients
                         /\ patients_request(f).sql_seq = sql_seq
                         /\ patients_request(f).patients = patients] : f \in PatientForms}
    \cup {[response |-> update_patient_request(f).response,
           unchanged |-> /\ update_patient_request(f).sql_patients = sql_patients
                         /\ update_patient_request(f).patients = patients] : f \in UpdateForms}
    \cup {[response |-> delete_patient_request(f).response,
           unchanged |-> /\ delete_patient_request(f).sql_patients = sql_patients
                         /\ delete_patient_request(f).patients = patients] : f \in DeleteForms}
    \cup {[response |-> update_stroke_row_request(f).response,
           unchanged |-> update_stroke_row_request(f).stroke_csv = stroke_csv] :
            f \in StrokeUpdateForms}
    \cup {[response |-> delete_stroke_row_request(f).response,
           unchanged |-> delete_stroke_row_request(f).stroke_csv = stroke_csv] :
            f \in StrokeDeleteForms}
PatientRequests ==
    {[response |-> patient_dashboard_request.response, unchanged |-> TRUE]}

\* Every request to a protected route is sent to the login page and changes
\* nothing.
AllSentToLogin ==
    \A q \in DoctorRequests \cup PatientRequests : ToLogin(q.response) /\ q.unchanged

\* C17: in every session state the handler of a role-protected route runs
\* exactly when the session holds a username and its role is the route's
\* (doctor for /doctor_dashboard, /patients, /patients/update,
\* /patients/delete and the CSV routes, patient for /patient_dashboard);
\* every other request to such a route is answered by the redirect to the
\* login page and leaves the relational tables, the mirrored collections and
\* the CSV file unchanged.
C17_RoleGate ==
    appPc = "serving" =>
      /\ \A q \in DoctorRequests :
           IF Allowed("doctor") THEN ~ToLogin(q.response)
           ELSE ToLogin(q.response) /\ q.unchanged
      /\ \A q \in PatientRequests :
           IF Allowed("patient") THEN ~ToLogin(q.response)
           ELSE ToLogin(q.response) /\ q.unchanged

\* C17 witness: a doctor and a patient are registered and the patient is
\* logged in; the patient dashboard is rendered and a valid patient form
\* posted to /patients is refused for the role.
C17_Witness ==
    /\ appPc = "serving"
    /\ [username |-> "doc1", password_hash |-> generate_password_hash("pw1"),
        role |-> "doctor"] \in sql_users
    /\ session = [username |-> "pat1", role |-> "patient"]
    /\ patient_dashboard_request.response = Page("patient_dashboard.html", "")
    /\ patients_request([name |-> "A", age |-> "30", condition |-> "X"]).response
         = Redirect("login", "Access denied: insufficient permissions.")

\* The login form's credentials match a registered user.
Matching(f) ==
    /\ strip(f.username) # "" /\ f.password # ""
    /\ \E row \in sql_users :
         /\ row.username = strip(f.username)
         /\ row.password_hash = generate_password_hash(f.password)

\* C18: a logout leaves the session without username and role; from then on
\* every request to a protected route is redirected to login and changes
\* nothing, until a login with matching credentials.
C18_State ==
    (appPc = "serving" /\ session.username = None) =>
      (session.role = None /\ AllSentToLogin)
C18_Action ==
    /\ logout => session' = [username |-> None, role |-> None]
    /\ (session.username = None /\ session'.username # None) =>
         \E f \in LoginForms : login(f) /\ Matching(f)
C18_LogoutEndsAccess == []C18_State /\ [][C18_Action]_vars

\* C18 witness: a patient row exists, which only a logged-in doctor adds, and
\* the session is empty again: the doctor has logged out, and the patient form
\* is now answered by the redirect to login.
C18_Witness ==
    /\ appPc = "serving" /\ sql_patients # {}
    /\ session = [username |-> None, role |-> None]
    /\ patients_request([name |-> "A", age |-> "30", condition |-> "X"]).response
         = Redirect("login", "You must be logged in to access that page.")

\* C19: a login request with an unknown username, a password that does not
\* match the stored hash, or an empty username or password leaves the
\* session as it is; the session gains or changes its username only by a
\* login whose credentials match a registered user, and the session's role
\* is then, and stays, that user's stored role.
C19_State ==
    appPc = "serving" =>
      /\ \A f \in LoginForms :
           IF Matching(f)
           THEN \E row \in sql_users :
                  /\ row.username = strip(f.username)
                  /\ login_request(f).session
                       = [username |-> row.username, role |-> row.role]
           ELSE /\ login_request(f).session = session
                /\ login_request(f).response.kind = "page"
      /\ session.username # None =>
           \E row \in sql_users :
             row.username = session.username /\ row.role = session.role
C19_Action ==
    (session' # session /\ session'.username # None) =>
      \E f \in LoginForms : login(f) /\ Matching(f)
C19_LoginSetsSession == []C19_State /\ [][C19_Action]_vars

\* C19 witness: doc1 is logged in as a doctor and a login request for doc1
\* with a wrong password is answered by the login page, the session as before.
C19_Witness ==
    /\ appPc = "serving" /\ session = [username |-> "doc1", role |-> "doctor"]
    /\ login_request([username |-> "doc1", password |-> "pw2"])
         = [response |-> Page("login.html", "Invalid username or password."),
            session |-> session]

\* C20: a registration request with a missing field, or with password and
\* confirm_password different, leaves the relational users table and the
\* mirrored users collection unchanged; a complete request for a username
\* that is registered is answered "Username already exists.", leaves the
\* relational table unchanged and sends no mirrored write.
C20_RejectedRegistration ==
    appPc = "serving" =>
      \A f \in AuthRegisterForms :
        LET c == register_request(f)
            missing == \/ strip(f.username) = "" \/ f.password = ""
                       \/ f.confirm_password = "" \/ f.role = ""
            taken == \E row \in sql_users : row.username = strip(f.username)
        IN /\ (missing \/ f.password # f.confirm_password) =>
                /\ c.sql_users = sql_users /\ c.users = users
                /\ c.response.message # "registered successfully!"
           /\ (~missing /\ f.password = f.confirm_password /\ taken) =>
                /\ c.response = Page("register.html", "Username already exists.")
                /\ c.sql_users = sql_users /\ c.users = users

\* C20 witness: doc1 is registered, the mirrored collection has no unique
\* index and would take a second document for doc1, and a second complete
\* registration of doc1 is answered "Username already exists."
C20_Witness ==
    /\ appPc = "serving" /\ storeUp /\ ~usersUnique /\ HasUser("doc1")
    /\ \E row \in sql_users : row.username = "doc1"
    /\ register_request([username |-> "doc1", password |-> "pw1",
                         confirm_password |-> "pw1", role |-> "doctor"]).response
         = Page("register.html", "Username already exists.")

\* The relational row a patient form addresses by its id exists, so that the
\* request's UPDATE or DELETE takes effect on a row.
RowExists(pid) ==
    /\ int(strip(pid)).exc = None
    /\ \E row \in sql_patients : row.id = int(strip(pid)).n

\* C21: a web request changes the document store only together with its own
\* relational write having taken effect on a row: a mirrored user or patient
\* insert comes with the new relational row of the same request, a mirrored
\* update or delete with a relational row of the given id, which the
\* request's UPDATE or DELETE matched; a request whose relational write
\* fails or matches no row leaves the document store alone.
C21_MirrorFollowsRelational ==
    appPc = "serving" =>
      /\ \A f \in RegisterForms :
           LET c == register_request(f)
           IN c.users # users => c.sql_users # sql_users
      /\ \A f \in PatientForms :
           LET c == patients_request(f)
           IN c.patients # patients => c.sql_patients # sql_patients
      /\ \A f \in UpdateForms :
           LET c == update_patient_request(f)
           IN c.patients # patients => RowExists(f.id)
      /\ \A f \in DeleteForms :
           LET c == delete_patient_request(f)
           IN c.patients # patients => RowExists(f.id)

\* C22: once a patient's relational row exists without a mirrored document
\* (the mirrored insert failed, the store being unavailable at that moment),
\* no later step of the application stores a document with that id.
C22_MissedMirrorStaysAbsent ==
    [][\A row \in sql_patients :
         ~HasId(row.id) => (~HasId(row.id))']_vars

\* C24: in every reachable state, whatever add-patient and update-patient
\* requests ran, the age of every relational patient row and of every
\* mirrored patient document is a positive integer.
C24_AgesPositive ==
    /\ \A row \in sql_patients : row.age \in Nat /\ row.age > 0
    /\ \A k \in 1..Len(patients) : patients[k].age \in Nat /\ patients[k].age > 0

\* The roles of the data model.
ValidRoles == {"doctor", "patient", "staff", "admin"}

\* C25: in every reachable state the role of every user stored by a
\* registration request or by insert_user, in the relational table and in
\* the mirrored collection, is one of doctor, patient, staff, admin.
C25_RolesEnumerated ==
    /\ \A row \in sql_users : row.role \in ValidRoles
    /\ \A k \in 1..Len(users) : users[k].role \in ValidRoles

\* C26: with the document store reachable throughout, whenever the
\* add-patient, update-patient and delete-patient requests issued so far have
\* all completed, the ids of the mirrored patient documents are the ids of
\* the relational patient rows, and for each id name, age and condition are
\* the same in both stores.
C26_StoresAgree ==
    (appPc = "serving" /\ storeUp) =>
      /\ {patients[k].id : k \in 1..Len(patients)} = {row.id : row \in sql_patients}
      /\ \A k \in 1..Len(patients) :
           \A row \in sql_patients :
             row.id = patients[k].id =>
               /\ row.name = patients[k].name
               /\ row.age = patients[k].age
               /\ row.condition = patients[k].condition

\* C23: no step of mongo.py's functions or of the web application changes or
\* removes a user document that is stored: the users collection only grows,
\* and every document in it keeps its place and all its fields, username
\* and created_at among them.
C23_UsersOnlyGrow ==
    [][/\ Len(users') >= Len(users)
       /\ \A k \in 1..Len(users) :
            /\ users'[k] = users[k]
            /\ users'[k].username = users[k].username
            /\ users'[k].created_at = users[k].created_at]_vars

\* C23 witness: a user registered through the web form at time 0 and a user
\* stored by insert_user at time 1 are both in the collection, the first as
\* it was stored.
C23_Witness ==
    /\ Len(users) = 2
    /\ users[1].password_hash = generate_password_hash("pw1") /\ users[1].created_at = 0
    /\ users[2].password_hash = "h1" /\ users[2].created_at = 1

====
